---- MODULE Spec2Model ----
(***************************************************************************)
(* A model of websocketpp's session<endpoint_policy>                       *)
(* (src/src/websocket_session.hpp), server role: the opening handshake,    *)
(* the frame read loop, the write path, the two deadlines run on m_timer   *)
(* and the close handshake.                                                *)
(*                                                                         *)
(* The session runs on one io_service thread.  An asynchronous operation   *)
(* is started by a handler, completes at some later time (its completion   *)
(* handler is then queued, in completion order, in `ready`) and its        *)
(* handler is run when it reaches the head of the queue.  Each handler and *)
(* each public call runs to completion: it is one action.                  *)
(***************************************************************************)
EXTENDS Naturals, Sequences, FiniteSets

\* ---------------------------------------------------------------- bounds
\* how many tokens the read buffer holds (the buf_size of the constructor)
MaxBuf == 2
\* how many frame writes may be started and not yet handled
MaxWrites == 2
\* how many payload bytes the peer puts in one message
MaxMsg == 2
\* set_handler is called while fewer than this many on_open were delivered
MaxSetHandler == 1

VARIABLES
    m_state,          \* state::value
    m_writing,        \* the write latch
    m_was_clean,
    m_closed_by_me,
    m_dropped_by_me,
    m_local_close_code,
    m_local_close_msg,
    m_remote_close_code,
    m_remote_close_msg,
    m_server_http_code, \* 0 until handle_read_handshake sets it
    m_fragmented,
    m_current_opcode,
    m_current_message, \* the payload of the fragments accepted so far
    m_utf8_state,     \* the streaming validator: "ACCEPT", "NEED1", "REJECT"
    m_read_frame,     \* the frame parser: [st, op, fin, status, payload]
    m_write_frame,    \* the outbound frame buffer: [op, status, msg, payload]
    m_buf,            \* unconsumed input, a sequence of tokens
    m_socket,         \* "open" | "notconn" (peer gone, descriptor open) | "closed"
    m_timer,          \* waits on m_timer not yet expired: kind -> count
    pending,          \* socket operations in flight: kind -> count
    ready,            \* completion handlers queued for invocation
    started,          \* on_connect was called
    on_open,          \* number of on_open callbacks delivered
    on_close,         \* number of on_close callbacks delivered
    close_sent,       \* a CLOSE frame was handed to async_write
    first_close,      \* who handed the first CLOSE frame over: "NONE", "local", "peer"
    write_overlap,    \* a write was started while m_writing was set
    write_closed,     \* a write was started while m_state was CLOSED
    read_overlap,     \* a read was started while another was outstanding
    close_received,   \* a CLOSE frame of the peer was processed
    loop_error,       \* the frame error the read loop last acted on (Close frame or drop)
    msg_on_error,     \* on_message was delivered for a frame that raised an error
    msg_before_open,  \* on_message was delivered before on_open
    wire_opcode,      \* opcode of the message the peer is sending, "NONE" once delivered
    wire_message,     \* the payload the peer has sent of that message
    msg_wrong,        \* on_message was handed something else than the peer's message
    close_twice,      \* a second CLOSE frame was handed to async_write
    close_cause       \* how the session first became CLOSED

vars == << m_state, m_writing, m_was_clean, m_closed_by_me, m_dropped_by_me,
           m_local_close_code, m_local_close_msg, m_remote_close_code,
           m_remote_close_msg, m_server_http_code, m_fragmented, m_current_opcode,
           m_current_message, m_utf8_state,
           m_read_frame, m_write_frame, m_buf, m_socket, m_timer, pending, ready,
           started, on_open, on_close, close_sent, first_close,
           write_overlap, write_closed, read_overlap, close_received,
           loop_error, msg_on_error, msg_before_open, wire_opcode, wire_message,
           msg_wrong, close_twice, close_cause >>

\* ------------------------------------------------------------ vocabulary
TimerKinds == {"handshake", "close"}
OpKinds == {"hs_read", "hs_write", "read", "write"}
DataOps == {"CONTINUATION", "TEXT", "BINARY"}
ControlOps == {"CLOSE", "PING", "PONG"}
ErrorCodes == {"PROTOCOL_VIOLATION", "PAYLOAD_VIOLATION", "INTERNAL_SERVER_ERROR",
               "SOFT_SESSION_ERROR", "FATAL_SESSION_ERROR", "MESSAGE_TOO_BIG"}

\* close::status values
NORMAL == 1000
PROTOCOL_ERROR == 1002
NO_STATUS == 1005
ABNORMAL_CLOSE == 1006
INVALID_PAYLOAD == 1007
POLICY_VIOLATION == 1008
MESSAGE_TOO_BIG == 1009

\* close::status::invalid: codes that may not appear on the wire
invalid(status) == status \in {NO_STATUS, ABNORMAL_CLOSE} \/ status > 65535

\* close::status::reserved: codes reserved by the protocol
reserved(status) == status <= 999 \/ (status >= 1015 /\ status \notin 4000..4999)

\* The status codes the application calls close() with: an accepted one and a
\* reserved one.
CloseCodes == {NORMAL, 999}

\* The status a Close frame of the peer carries; NO_STATUS is what
\* get_close_status() gives for a Close frame without payload.
PeerCloseCodes == {NORMAL, NO_STATUS}

\* What one call of the parser's consume() can find in the buffer: the rest of
\* a frame (the frame is then ready), bytes that do not complete a frame, or
\* bytes the decoder rejects with an error code.
FramesWith(data, ping) ==
    [t : {"frame"}, op : DataOps, fin : BOOLEAN, code : {"NONE"}, status : {0}, payload : data]
        \cup [t : {"frame"}, op : {"PING"}, fin : {TRUE}, code : {"NONE"}, status : {0}, payload : ping]
        \cup [t : {"frame"}, op : {"PONG"}, fin : {TRUE}, code : {"NONE"}, status : {0}, payload : {<< >>}]
        \cup [t : {"frame"}, op : {"CLOSE"}, fin : {TRUE}, code : {"NONE"}, status : PeerCloseCodes,
              payload : {<< >>}]

\* Frames without payload
FrameTokens == FramesWith({<< >>}, {<< >>})
PartToken == [t |-> "part", op |-> "NONE", fin |-> FALSE, code |-> "NONE", status |-> 0, payload |-> << >>]
BadTokens == [t : {"bad"}, op : {"NONE"}, fin : {FALSE}, code : ErrorCodes, status : {0}, payload : {<< >>}]

\* Payload bytes by what the UTF-8 validator makes of them: "a" is a
\* one-byte character, "L" the first and "C" the second byte of a two-byte
\* character.
Payloads == { << >>, <<"a">>, <<"L">>, <<"C">> }

\* Frames with payload
PayloadTokens == FramesWith(Payloads, {<< >>, <<"a">>})
Tokens == FrameTokens \cup {PartToken} \cup BadTokens

\* The frames that follow another frame in one read.
NextTokens == {a \in FrameTokens : a.op \in {"PING", "CLOSE"}}

\* The bytes a read can have added to the buffer when it completes with ec:
\* at least one token on success (transfer_at_least), possibly none before
\* the end of file, none the session will look at otherwise.
Arrived(ec) ==
    CASE ec = "ok" -> {<<a>> : a \in Tokens}
                          \cup {<<a, b>> : a \in FrameTokens \cup BadTokens, b \in NextTokens}
      [] ec = "eof" -> {<< >>} \cup {<<a>> : a \in Tokens}
      [] OTHER -> {<< >>}

\* The session as one record, so that the handlers can be written as the
\* sequential code they are.  exc is the frame::exception in flight ("NONE"
\* when there is none), brk the read loop's break and delivered the number of
\* on_message calls of the running handler; they are clear between handlers.
S ==
    [ m_state |-> m_state, m_writing |-> m_writing, m_was_clean |-> m_was_clean,
      m_closed_by_me |-> m_closed_by_me, m_dropped_by_me |-> m_dropped_by_me,
      m_local_close_code |-> m_local_close_code, m_local_close_msg |-> m_local_close_msg,
      m_remote_close_code |-> m_remote_close_code,
      m_remote_close_msg |-> m_remote_close_msg,
      m_server_http_code |-> m_server_http_code, m_fragmented |-> m_fragmented,
      m_current_opcode |-> m_current_opcode,
      m_current_message |-> m_current_message, m_utf8_state |-> m_utf8_state,
      m_read_frame |-> m_read_frame, m_write_frame |-> m_write_frame,
      m_buf |-> m_buf, m_socket |-> m_socket,
      m_timer |-> m_timer, pending |-> pending, ready |-> ready,
      started |-> started, on_open |-> on_open, on_close |-> on_close,
      close_sent |-> close_sent, first_close |-> first_close,
      write_overlap |-> write_overlap, write_closed |-> write_closed,
      read_overlap |-> read_overlap,
      close_received |-> close_received, loop_error |-> loop_error,
      msg_on_error |-> msg_on_error, msg_before_open |-> msg_before_open,
      wire_opcode |-> wire_opcode, wire_message |-> wire_message,
      msg_wrong |-> msg_wrong, close_twice |-> close_twice,
      close_cause |-> close_cause,
      exc |-> "NONE", brk |-> FALSE, delivered |-> 0 ]

\* The step that leaves the session as the record s.
Apply(s) ==
    /\ m_state' = s.m_state
    /\ m_writing' = s.m_writing
    /\ m_was_clean' = s.m_was_clean
    /\ m_closed_by_me' = s.m_closed_by_me
    /\ m_dropped_by_me' = s.m_dropped_by_me
    /\ m_local_close_code' = s.m_local_close_code
    /\ m_local_close_msg' = s.m_local_close_msg
    /\ m_remote_close_code' = s.m_remote_close_code
    /\ m_remote_close_msg' = s.m_remote_close_msg
    /\ m_server_http_code' = s.m_server_http_code
    /\ m_fragmented' = s.m_fragmented
    /\ m_current_opcode' = s.m_current_opcode
    /\ m_current_message' = s.m_current_message
    /\ m_utf8_state' = s.m_utf8_state
    /\ m_read_frame' = s.m_read_frame
    /\ m_write_frame' = s.m_write_frame
    /\ m_buf' = s.m_buf
    /\ m_socket' = s.m_socket
    /\ m_timer' = s.m_timer
    /\ pending' = s.pending
    /\ ready' = s.ready
    /\ started' = s.started
    /\ on_open' = s.on_open
    /\ on_close' = s.on_close
    /\ close_sent' = s.close_sent
    /\ first_close' = s.first_close
    /\ write_overlap' = s.write_overlap
    /\ write_closed' = s.write_closed
    /\ read_overlap' = s.read_overlap
    /\ close_received' = s.close_received
    /\ loop_error' = s.loop_error
    /\ msg_on_error' = s.msg_on_error
    /\ msg_before_open' = s.msg_before_open
    /\ wire_opcode' = s.wire_opcode
    /\ wire_message' = s.wire_message
    /\ msg_wrong' = s.msg_wrong
    /\ close_twice' = s.close_twice
    /\ close_cause' = s.close_cause

\* ------------------------------------------------- the io_service and asio
\* Queue a completion handler with its error code.
Post(s, h, ec) == [s EXCEPT !.ready = Append(@, [h |-> h, ec |-> ec])]

\* f applied to the value v: a local variable of the code, named by f
Let(v, f(_)) == f(v)

RECURSIVE PostN(_, _, _, _)
PostN(s, h, ec, n) == IF n = 0 THEN s ELSE PostN(Post(s, h, ec), h, ec, n - 1)

\* CancelWaits, cancelling nothing
CancelWaits_none(s) == s

\* Cancelling the waits on m_timer: each wait that has not expired completes
\* with operation_aborted.  A wait that has expired is already queued in
\* `ready` with success and is not touched.
CancelWaits(s) ==
    [ PostN(PostN(s, "handshake", "aborted", s.m_timer["handshake"]),
            "close", "aborted", s.m_timer["close"])
      EXCEPT !.m_timer = [k \in TimerKinds |-> 0] ]

\* deadline_timer::cancel()
timer_cancel(s) == CancelWaits(s)

\* deadline_timer::expires_from_now() followed by async_wait(handler k)
timer_arm(s, k) == [CancelWaits(s) EXCEPT !.m_timer[k] = @ + 1]

\* Starting an operation on the socket.  On a closed descriptor it fails at
\* once (its handler is queued with an error); otherwise it is in flight.
StartOp(s, k) ==
    IF s.m_socket = "closed" THEN Post(s, k, "err")
    ELSE [s EXCEPT !.pending[k] = @ + 1]

\* socket::close(): every operation in flight completes with operation_aborted.
CloseSocket(s) ==
    [ PostN(PostN(PostN(PostN(s, "hs_read", "aborted", s.pending["hs_read"]),
                        "hs_write", "aborted", s.pending["hs_write"]),
                  "read", "aborted", s.pending["read"]),
            "write", "aborted", s.pending["write"])
      EXCEPT !.pending = [k \in OpKinds |-> 0], !.m_socket = "closed" ]

\* Frame reads and frame writes started and not yet handled.
Outstanding(s, k) ==
    s.pending[k] + Cardinality({i \in 1..Len(s.ready) : s.ready[i].h = k})

\* Records how the session becomes CLOSED, the first time it does.
Cause(s, c) == IF s.m_state # "CLOSED" /\ s.close_cause = "NONE" THEN [s EXCEPT !.close_cause = c] ELSE s

Init ==
    /\ m_state = "CONNECTING"
    /\ m_writing = FALSE
    /\ m_was_clean = FALSE
    /\ m_closed_by_me = FALSE
    /\ m_dropped_by_me = FALSE
    /\ m_local_close_code = NO_STATUS
    /\ m_local_close_msg = ""
    /\ m_remote_close_code = NO_STATUS
    /\ m_remote_close_msg = ""
    /\ m_server_http_code = 0
    /\ m_fragmented = FALSE
    /\ m_current_opcode = "NONE"
    /\ m_current_message = << >>
    /\ m_utf8_state = "ACCEPT"
    /\ m_read_frame = [st |-> "HEADER", op |-> "NONE", fin |-> FALSE, status |-> 0, payload |-> << >>]
    /\ m_write_frame = [op |-> "NONE", status |-> 0, msg |-> "", payload |-> << >>]
    /\ m_buf = << >>
    /\ m_socket = "open"
    /\ m_timer = [k \in TimerKinds |-> 0]
    /\ pending = [k \in OpKinds |-> 0]
    /\ ready = << >>
    /\ started = FALSE
    /\ on_open = 0
    /\ on_close = 0
    /\ close_sent = FALSE
    /\ first_close = "NONE"
    /\ write_overlap = FALSE
    /\ write_closed = FALSE
    /\ read_overlap = FALSE
    /\ close_received = FALSE
    /\ loop_error = "NONE"
    /\ msg_on_error = FALSE
    /\ msg_before_open = FALSE
    /\ wire_opcode = "NONE"
    /\ wire_message = << >>
    /\ msg_wrong = FALSE
    /\ close_twice = FALSE
    /\ close_cause = "NONE"

\* ------------------------------------------------------------- the session
\* session::drop_tcp
drop_tcp(s, dropped_by_me) ==
    \* shutdown() on a descriptor whose peer is gone throws not_connected,
    \* which is caught: close() is skipped
    [ Let(timer_cancel(s), LAMBDA a : IF a.m_socket = "open" THEN CloseSocket(a) ELSE a)
      EXCEPT !.m_dropped_by_me = dropped_by_me, !.m_state = "CLOSED" ]

\* m_write_frame.set_fin(true), set_opcode(op) and set_payload or set_status
set_frame(s, op, status, msg) ==
    [s EXCEPT !.m_write_frame = [op |-> op, status |-> status, msg |-> msg, payload |-> << >>]]

\* session::write_frame: hands m_write_frame to async_write
write_frame(s) ==
    LET op == s.m_write_frame.op
    IN StartOp([s EXCEPT !.m_writing = TRUE,
                         !.write_overlap = @ \/ s.m_writing,
                         !.write_closed = @ \/ s.m_state = "CLOSED",
                         !.close_sent = @ \/ op = "CLOSE",
                         !.close_twice = @ \/ (op = "CLOSE" /\ s.close_sent),
                         !.first_close = IF @ = "NONE" /\ op = "CLOSE" THEN "local" ELSE @],
               "write")

\* session::handle_write_frame
handle_write_frame(s, ec) ==
    LET a == IF ec # "ok" THEN drop_tcp(Cause(s, "write_error"), FALSE) ELSE s
    IN [a EXCEPT !.m_writing = FALSE]

\* send_frame that fills the outbound buffer before it tests m_state
send_frame_fills(s, op) ==
    IF s.m_state # "OPEN" THEN set_frame(s, op, 0, "")
    ELSE write_frame(set_frame(s, op, 0, ""))

\* send_frame without the test of m_state
send_frame_unguarded(s, op) == write_frame(set_frame(s, op, 0, ""))

\* session::send (both overloads), ping and pong: op is the opcode they set
send_frame(s, op) ==
    IF s.m_state # "OPEN" THEN s
    ELSE write_frame(set_frame(s, op, 0, ""))

\* send_close that echoes every status it is given
send_close_echo(s, status, reason) ==
    IF s.m_state # "OPEN" THEN s
    ELSE LET a == timer_arm([s EXCEPT !.m_state = "CLOSING"], "close")
             b == [a EXCEPT !.m_local_close_code = status, !.m_local_close_msg = reason]
         IN write_frame(set_frame(b, "CLOSE", status, reason))

\* send_close that sends whenever the session is not CLOSED
send_close_notclosed(s, status, reason) ==
    IF s.m_state = "CLOSED" THEN s
    ELSE write_frame(set_frame(timer_arm([s EXCEPT !.m_state = "CLOSING"], "close"),
                               "CLOSE", status, reason))

\* session::send_close
send_close(s, status, reason) ==
    IF s.m_state # "OPEN" THEN s
    ELSE write_frame(Let(
             [ timer_arm([s EXCEPT !.m_state = "CLOSING"], "close")
               EXCEPT !.m_local_close_code = status, !.m_local_close_msg = reason ],
             LAMBDA b :
                  IF status = NO_STATUS THEN set_frame(b, "CLOSE", NORMAL, "")
                  ELSE IF status = ABNORMAL_CLOSE THEN set_frame(b, "CLOSE", POLICY_VIOLATION, reason)
                  ELSE IF invalid(status) THEN set_frame(b, "CLOSE", PROTOCOL_ERROR, "Status code is invalid")
                  ELSE IF reserved(status) THEN set_frame(b, "CLOSE", PROTOCOL_ERROR, "Status code is reserved")
                  ELSE set_frame(b, "CLOSE", status, reason)))

\* session::validate_app_close_status
validate_app_close_status(status) == status = NORMAL \/ (status >= 4000 /\ status < 5000)

\* session::close: the result of validate_app_close_status is not used
session_close(s, status, reason) ==
    LET valid == validate_app_close_status(status)
    IN send_close(s, status, reason)

\* session::handle_handshake_expired
handle_handshake_expired(s, ec) ==
    IF ec # "ok"
    THEN IF ec # "aborted" THEN drop_tcp(Cause(s, "hs_timer_error"), TRUE) ELSE s
    ELSE drop_tcp(Cause(s, IF s.m_state = "CONNECTING" THEN "hs_timeout" ELSE "hs_timeout_late"), TRUE)

\* session::handle_close_expired
handle_close_expired(s, ec) ==
    IF ec # "ok"
    THEN IF ec = "aborted" THEN s ELSE drop_tcp(Cause(s, "close_timer_error"), FALSE)
    ELSE IF s.m_state # "CLOSED" THEN drop_tcp(Cause(s, "close_timeout"), FALSE) ELSE s

\* session::reset_message
reset_message(s) ==
    [s EXCEPT !.m_fragmented = FALSE, !.m_current_message = << >>, !.m_utf8_state = "ACCEPT"]

\* ------------------------------------------------------- opening handshake
\* The request line, cut into the pieces the checks look for.
RequestLines ==
    { <<"GET ", "/", " HTTP/1.1">>, <<"GET ", "/", " HTTP/1.1", "0">>,
      <<"POST ", "/", " HTTP/1.1">>, <<"GET ", "/", " HTTP/1.0">>, <<"GET ", "/">> }

\* Values of the Sec-WebSocket-Version header, character by character; the
\* empty one is a missing header.
VersionHeaders == { << >>, <<"7">>, <<"8">>, <<"9">>, <<"1", "3">>, <<"1", "3", "a">> }

\* What handle_read_handshake looks at in the client's request.  validate is
\* the HTTP status the application's validate() rejects with, 0 when it
\* accepts.
Requests ==
    [ line : RequestLines, host : {"", "rejected", "ok"},
      upgrade : {"", "other", "websocket"}, connection : {"", "other", "upgrade"},
      key : BOOLEAN, version : VersionHeaders, validate : {0, 403} ]

DigitValue(c) ==
    CASE c = "0" -> 0 [] c = "1" -> 1 [] c = "2" -> 2 [] c = "3" -> 3 [] c = "4" -> 4
      [] c = "5" -> 5 [] c = "6" -> 6 [] c = "7" -> 7 [] c = "8" -> 8 [] c = "9" -> 9
      [] OTHER -> 0 - 1

\* atoi: the value of the leading digits, 0 when there are none
RECURSIVE atoi_from(_, _)
atoi_from(str, acc) ==
    IF str = << >> \/ DigitValue(Head(str)) < 0 THEN acc
    ELSE atoi_from(Tail(str), acc * 10 + DigitValue(Head(str)))

atoi(str) == atoi_from(str, 0)

\* m_client_http_request.substr(0,4) == "GET "
has_method(line) == Len(line) > 0 /\ line[1] = "GET "

\* m_client_http_request.find(" HTTP/1.1", 4) != npos
has_http_version(line) == \E i \in 2..Len(line) : line[i] = " HTTP/1.1"

\* The try block of session::handle_read_handshake: the HTTP status it leaves
\* in m_server_http_code.
handshake_status(req) ==
    IF ~has_method(req.line) THEN 400
    ELSE IF ~has_http_version(req.line) THEN 400
    ELSE IF req.host = "" THEN 400
    ELSE IF req.host # "ok" THEN 400
    ELSE IF req.upgrade = "" THEN 400
    ELSE IF req.upgrade # "websocket" THEN 400
    ELSE IF req.connection = "" THEN 400
    ELSE IF req.connection # "upgrade" THEN 400
    ELSE IF ~req.key THEN 400
    ELSE IF req.version = << >> THEN 400
    ELSE IF atoi(req.version) \notin {7, 8, 13} THEN 400
    ELSE IF req.validate # 0 THEN req.validate
    ELSE 101

\* session::write_handshake
write_handshake(s) == StartOp(s, "hs_write")

\* session::handle_read_handshake.  The error code of the read is not looked
\* at; the stream insertion drains m_buf.
handle_read_handshake(s, ec, req) ==
    write_handshake([s EXCEPT !.m_buf = << >>, !.m_server_http_code = handshake_status(req)])

\* session::read_handshake
read_handshake(s) == StartOp(timer_arm(s, "handshake"), "hs_read")

\* ------------------------------------------------------------ frame parser
Throw(s, code) == [s EXCEPT !.exc = code]

\* f(s) unless an exception is in flight
Then(s, f(_)) == IF s.exc # "NONE" THEN s ELSE f(s)

\* frame::parser::get_bytes_needed: 0 only when a frame is ready
get_bytes_needed(s) == IF s.m_read_frame.st = "READY" THEN 0 ELSE 1

\* frame::parser::ready
parser_ready(s) == s.m_read_frame.st = "READY"

\* frame::parser::reset
parser_reset(s) ==
    [s EXCEPT !.m_read_frame = [st |-> "HEADER", op |-> "NONE", fin |-> FALSE, status |-> 0,
                                payload |-> << >>]]

\* frame::parser::consume: takes the next bytes from the stream
consume(s) ==
    LET tok == Head(s.m_buf)
        a == [s EXCEPT !.m_buf = Tail(@)]
    IN CASE tok.t = "frame" ->
                [a EXCEPT !.m_read_frame = [st |-> "READY", op |-> tok.op, fin |-> tok.fin,
                                            status |-> tok.status, payload |-> tok.payload],
                          \* what the peer has sent of its message in progress
                          \* while the session is OPEN
                          !.wire_opcode = IF s.m_state = "OPEN" /\ tok.op \in {"TEXT", "BINARY"}
                                          THEN tok.op ELSE @,
                          !.wire_message =
                              CASE s.m_state = "OPEN" /\ tok.op \in {"TEXT", "BINARY"} -> tok.payload
                                [] s.m_state = "OPEN" /\ tok.op = "CONTINUATION" -> @ \o tok.payload
                                [] OTHER -> @]
         [] tok.t = "part" -> [a EXCEPT !.m_read_frame.st = "PAYLOAD"]
         [] OTHER -> Throw(a, tok.code)

\* ------------------------------------------------------- frame processing
\* m_local_interface->on_message with the opcode op and the payload msg.
\* The message is compared with what the peer sent, which is then forgotten.
on_message(s, op, msg) ==
    [s EXCEPT !.delivered = @ + 1, !.msg_before_open = @ \/ s.on_open = 0,
              !.msg_wrong = @ \/ op # s.wire_opcode \/ msg # s.wire_message
                              \/ ~s.m_read_frame.fin,
              !.wire_opcode = "NONE", !.wire_message = << >>]

\* utf8_validator::decode: one byte
utf8_decode(state, byte) ==
    CASE state = "ACCEPT" /\ byte = "a" -> "ACCEPT"
      [] state = "ACCEPT" /\ byte = "L" -> "NEED1"
      [] state = "NEED1" /\ byte = "C" -> "ACCEPT"
      [] OTHER -> "REJECT"

RECURSIVE utf8_run(_, _)
utf8_run(state, bytes) ==
    IF bytes = << >> THEN state
    ELSE utf8_run(utf8_decode(state, Head(bytes)), Tail(bytes))

\* frame::parser::validate_utf8: advances the validator over the payload of
\* the frame and throws when it rejects
validate_utf8(s) ==
    Let(utf8_run(s.m_utf8_state, s.m_read_frame.payload), LAMBDA st :
        IF st = "REJECT" THEN Throw([s EXCEPT !.m_utf8_state = st], "PAYLOAD_VIOLATION")
        ELSE [s EXCEPT !.m_utf8_state = st])

\* deliver_message that does not look at the validator
deliver_message_unchecked(s) ==
    IF s.m_current_opcode \in {"BINARY", "TEXT"}
    THEN on_message(s, s.m_current_opcode,
                    IF s.m_fragmented THEN s.m_current_message ELSE s.m_read_frame.payload)
    ELSE Throw(s, "SOFT_SESSION_ERROR")

\* session::deliver_message
deliver_message(s) ==
    IF s.m_current_opcode = "BINARY"
    THEN on_message(s, "BINARY",
                    IF s.m_fragmented THEN s.m_current_message ELSE s.m_read_frame.payload)
    ELSE IF s.m_current_opcode = "TEXT"
    THEN IF s.m_utf8_state # "ACCEPT" THEN Throw(s, "PAYLOAD_VIOLATION")
         ELSE on_message(s, "TEXT",
                         IF s.m_fragmented THEN s.m_current_message ELSE s.m_read_frame.payload)
    ELSE Throw(s, "SOFT_SESSION_ERROR")

\* extract_payload that keeps only the payload of the last frame
extract_payload_last(s) == [s EXCEPT !.m_current_message = s.m_read_frame.payload]

\* session::extract_payload
extract_payload(s) == [s EXCEPT !.m_current_message = @ \o s.m_read_frame.payload]

\* session::process_binary
process_binary(s) ==
    IF s.m_fragmented THEN Throw(s, "PROTOCOL_VIOLATION")
    ELSE IF s.m_read_frame.fin
    THEN Then(deliver_message([s EXCEPT !.m_current_opcode = s.m_read_frame.op]), reset_message)
    ELSE extract_payload([s EXCEPT !.m_current_opcode = s.m_read_frame.op,
                                   !.m_fragmented = TRUE])

\* session::process_text
process_text(s) == Then(validate_utf8(s), process_binary)

\* The rest of session::process_continuation, once the frame is validated
continuation_payload(s) ==
    IF s.m_read_frame.fin
    THEN Then(deliver_message(extract_payload(s)), reset_message)
    ELSE extract_payload(s)

\* session::process_continuation
process_continuation(s) ==
    IF ~s.m_fragmented THEN Throw(s, "PROTOCOL_VIOLATION")
    ELSE IF s.m_current_opcode = "TEXT"
    THEN Then(validate_utf8(s), continuation_payload)
    ELSE continuation_payload(s)

\* process_ping that also starts a new message
process_ping_resets(s) ==
    write_frame(reset_message(
        [s EXCEPT !.m_write_frame = [op |-> "PONG", status |-> 0, msg |-> "",
                                     payload |-> s.m_read_frame.payload]]))

\* session::process_ping: the PONG carries the payload of the PING
process_ping(s) ==
    write_frame([s EXCEPT !.m_write_frame = [op |-> "PONG", status |-> 0, msg |-> "",
                                             payload |-> s.m_read_frame.payload]])

\* session::process_pong
process_pong(s) == s

\* process_close that sends no acknowledgement
process_close_noack(s) ==
    LET r == [s EXCEPT !.close_received = TRUE,
                       !.m_remote_close_code = s.m_read_frame.status,
                       !.m_remote_close_msg = IF s.m_read_frame.status = NO_STATUS THEN "" ELSE "peer"]
    IN [Cause(r, "peer_close") EXCEPT !.m_closed_by_me = (r.m_state = "CLOSING"),
                                      !.m_was_clean = TRUE, !.m_state = "CLOSED"]

\* process_close that takes every close for one of its own
process_close_mine(s) ==
    LET r == [s EXCEPT !.close_received = TRUE,
                       !.first_close = IF @ = "NONE" THEN "peer" ELSE @,
                       !.m_remote_close_code = s.m_read_frame.status,
                       !.m_remote_close_msg = IF s.m_read_frame.status = NO_STATUS THEN "" ELSE "peer"]
    IN Let(CASE r.m_state = "OPEN" ->
                    [send_close(r, r.m_remote_close_code, r.m_remote_close_msg)
                        EXCEPT !.m_closed_by_me = TRUE]
             [] r.m_state = "CLOSING" -> [r EXCEPT !.m_closed_by_me = TRUE]
             [] OTHER -> Throw(r, "FATAL_SESSION_ERROR"),
           LAMBDA a :
              IF a.exc # "NONE" THEN a
              ELSE [Cause(a, "peer_close") EXCEPT !.m_was_clean = TRUE, !.m_state = "CLOSED"])

\* process_close that acknowledges the peer's Close frame in CLOSING too
process_close_acks_again(s) ==
    LET r == [s EXCEPT !.close_received = TRUE,
                       !.first_close = IF @ = "NONE" THEN "peer" ELSE @,
                       !.m_remote_close_code = s.m_read_frame.status,
                       !.m_remote_close_msg = IF s.m_read_frame.status = NO_STATUS THEN "" ELSE "peer"]
    IN Let(CASE r.m_state = "OPEN" ->
                    send_close([r EXCEPT !.m_closed_by_me = FALSE],
                               r.m_remote_close_code, r.m_remote_close_msg)
             [] r.m_state = "CLOSING" ->
                    write_frame(set_frame([r EXCEPT !.m_closed_by_me = TRUE],
                                          "CLOSE", NORMAL, ""))
             [] OTHER -> Throw(r, "FATAL_SESSION_ERROR"),
           LAMBDA a :
              IF a.exc # "NONE" THEN a
              ELSE [Cause(a, "peer_close") EXCEPT !.m_was_clean = TRUE, !.m_state = "CLOSED"])

\* session::process_close
process_close(s) ==
    LET r == [s EXCEPT !.close_received = TRUE,
                       !.first_close = IF @ = "NONE" THEN "peer" ELSE @,
                       !.m_remote_close_code = s.m_read_frame.status,
                       !.m_remote_close_msg = IF s.m_read_frame.status = NO_STATUS THEN "" ELSE "peer"]
    IN Let(CASE r.m_state = "OPEN" ->
                    send_close([r EXCEPT !.m_closed_by_me = FALSE],
                               r.m_remote_close_code, r.m_remote_close_msg)
             [] r.m_state = "CLOSING" -> [r EXCEPT !.m_closed_by_me = TRUE]
             [] OTHER -> Throw(r, "FATAL_SESSION_ERROR"),
           LAMBDA a :
              IF a.exc # "NONE" THEN a
              ELSE [Cause(a, "peer_close") EXCEPT !.m_was_clean = TRUE, !.m_state = "CLOSED"])

\* process_frame that still answers a Ping while CLOSING
process_frame_closing_pong(s) ==
    LET op == s.m_read_frame.op
        a == CASE s.m_state = "OPEN" ->
                    CASE op = "CONTINUATION" -> process_continuation(s)
                      [] op = "TEXT" -> process_text(s)
                      [] op = "BINARY" -> process_binary(s)
                      [] op = "CLOSE" -> process_close(s)
                      [] op = "PING" -> process_ping(s)
                      [] op = "PONG" -> process_pong(s)
                      [] OTHER -> Throw(s, "PROTOCOL_VIOLATION")
               [] s.m_state = "CLOSING" ->
                    CASE op = "CLOSE" -> process_close(s)
                      [] op = "PING" -> process_ping(s)
                      [] OTHER -> s
               [] OTHER -> Throw(s, "FATAL_SESSION_ERROR")
    IN Then(a, parser_reset)

\* session::process_frame
process_frame(s) ==
    LET op == s.m_read_frame.op
        a == CASE s.m_state = "OPEN" ->
                    CASE op = "CONTINUATION" -> process_continuation(s)
                      [] op = "TEXT" -> process_text(s)
                      [] op = "BINARY" -> process_binary(s)
                      [] op = "CLOSE" -> process_close(s)
                      [] op = "PING" -> process_ping(s)
                      [] op = "PONG" -> process_pong(s)
                      [] OTHER -> Throw(s, "PROTOCOL_VIOLATION")
               [] s.m_state = "CLOSING" ->
                    IF op = "CLOSE" THEN process_close(s) ELSE s
               [] OTHER -> Throw(s, "FATAL_SESSION_ERROR")
    IN Then(a, parser_reset)

\* The try block of the read loop of session::handle_read_frame
try_frame(s) ==
    IF get_bytes_needed(s) = 0 THEN Throw(s, "FATAL_SESSION_ERROR")
    ELSE Let(consume(s), LAMBDA c :
            IF c.exc # "NONE" THEN c
            ELSE IF parser_ready(c)
            THEN Let(process_frame(timer_cancel(c)), LAMBDA p :
                     [p EXCEPT !.msg_on_error = @ \/ (p.exc # "NONE" /\ p.delivered > s.delivered)])
            ELSE c)

\* catch_frame that drops the connection on a payload violation
catch_frame_payload_drops(s) ==
    LET e == s.exc
        a == [s EXCEPT !.exc = "NONE"]
        b == IF parser_ready(a) THEN parser_reset(a) ELSE a
        n == IF b.m_state = "OPEN" THEN [b EXCEPT !.loop_error = e] ELSE b
    IN CASE e = "PROTOCOL_VIOLATION" -> [send_close(n, PROTOCOL_ERROR, "what") EXCEPT !.brk = TRUE]
         [] e = "PAYLOAD_VIOLATION" -> [drop_tcp(Cause(n, "fatal"), TRUE) EXCEPT !.brk = TRUE]
         [] e = "INTERNAL_SERVER_ERROR" -> [send_close(n, ABNORMAL_CLOSE, "what") EXCEPT !.brk = TRUE]
         [] e = "SOFT_SESSION_ERROR" -> b
         [] OTHER -> [drop_tcp(Cause([b EXCEPT !.loop_error = e], "fatal"), TRUE) EXCEPT !.brk = TRUE]

\* catch_frame that answers a fatal error with a Close frame
catch_frame_fatal_closes(s) ==
    LET e == s.exc
        a == [s EXCEPT !.exc = "NONE"]
        b == IF parser_ready(a) THEN parser_reset(a) ELSE a
        n == IF b.m_state = "OPEN" THEN [b EXCEPT !.loop_error = e] ELSE b
    IN CASE e = "PROTOCOL_VIOLATION" -> [send_close(n, PROTOCOL_ERROR, "what") EXCEPT !.brk = TRUE]
         [] e = "PAYLOAD_VIOLATION" -> [send_close(n, INVALID_PAYLOAD, "what") EXCEPT !.brk = TRUE]
         [] e = "INTERNAL_SERVER_ERROR" -> [send_close(n, ABNORMAL_CLOSE, "what") EXCEPT !.brk = TRUE]
         [] e = "SOFT_SESSION_ERROR" -> b
         [] OTHER -> [send_close([b EXCEPT !.loop_error = e], PROTOCOL_ERROR, "what") EXCEPT !.brk = TRUE]

\* The catch block of the read loop: brk is set unless the loop continues
catch_frame(s) ==
    Let(s.exc, LAMBDA e :
    Let(IF parser_ready(s) THEN parser_reset([s EXCEPT !.exc = "NONE"])
                           ELSE [s EXCEPT !.exc = "NONE"], LAMBDA b :
    \* the error is recorded when the loop acts on it
    Let(IF b.m_state = "OPEN" THEN [b EXCEPT !.loop_error = e] ELSE b, LAMBDA n :
      CASE e = "PROTOCOL_VIOLATION" -> [send_close(n, PROTOCOL_ERROR, "what") EXCEPT !.brk = TRUE]
        [] e = "PAYLOAD_VIOLATION" -> [send_close(n, INVALID_PAYLOAD, "what") EXCEPT !.brk = TRUE]
        [] e = "INTERNAL_SERVER_ERROR" -> [send_close(n, ABNORMAL_CLOSE, "what") EXCEPT !.brk = TRUE]
        [] e = "SOFT_SESSION_ERROR" -> b
        [] OTHER -> [drop_tcp(Cause([b EXCEPT !.loop_error = e], "fatal"), TRUE) EXCEPT !.brk = TRUE])))

\* The read loop of session::handle_read_frame
RECURSIVE frame_loop(_)
frame_loop(s) ==
    IF ~(Len(s.m_buf) > 0 /\ s.m_state # "CLOSED") THEN s
    ELSE Let(Let(try_frame(s), LAMBDA t : IF t.exc = "NONE" THEN t ELSE catch_frame(t)),
             LAMBDA r : IF r.brk THEN [r EXCEPT !.brk = FALSE] ELSE frame_loop(r))

\* should_read that reads on only while OPEN
should_read_open(s) == s.m_state = "OPEN" /\ get_bytes_needed(s) > 0

\* The test that starts the next read at the end of session::handle_read_frame
should_read(s) == s.m_state \in {"OPEN", "CLOSING"} /\ get_bytes_needed(s) > 0

\* The end of session::handle_read_frame: read more, or report the close
read_more(s) ==
    IF should_read(s)
    THEN StartOp([s EXCEPT !.read_overlap = @ \/ Outstanding(s, "read") > 0], "read")
    ELSE IF s.m_state = "CLOSED"
    THEN timer_cancel([s EXCEPT !.on_close = @ + 1])
    ELSE s

\* session::handle_read_frame
handle_read_frame(s, ec) ==
    IF s.m_state # "OPEN" /\ s.m_state # "CLOSING" THEN s
    ELSE IF ec = "aborted" THEN s
    ELSE read_more(Let(
             frame_loop(IF ec # "ok" /\ ec # "eof"
                        THEN [Cause(s, "read_error") EXCEPT !.m_state = "CLOSED"]
                        ELSE s),
             LAMBDA b : IF ec = "eof" THEN [Cause(b, "eof") EXCEPT !.m_state = "CLOSED"] ELSE b))

\* session::read_frame
read_frame(s) == handle_read_frame(s, "ok")

\* log_open_result that cannot fail
log_open_result_nothrow(s) == s

\* session::log_open_result: m_socket.remote_endpoint() throws system_error
\* on a socket that is closed or not connected
log_open_result(s) == IF s.m_socket # "open" THEN Throw(s, "system_error") ELSE s

\* session::handle_write_handshake.  The system_error of log_open_result is
\* not caught: it leaves the handler.
handle_write_handshake(s, ec) ==
    IF ec # "ok" THEN drop_tcp(Cause(s, "hs_write_error"), TRUE)
    ELSE LET a == log_open_result(s)
         IN IF a.exc # "NONE" THEN [a EXCEPT !.exc = "NONE"]
            ELSE IF a.m_server_http_code # 101 THEN drop_tcp(Cause(a, "hs_rejected"), TRUE)
            ELSE read_frame(reset_message(
                     [timer_cancel([a EXCEPT !.m_state = "OPEN"]) EXCEPT !.on_open = @ + 1]))

\* ------------------------------------------------------------------ steps
\* The session with the handler at the head of the queue taken off it.
Popped == [S EXCEPT !.ready = Tail(@)]

HeadIs(h) == Len(ready) > 0 /\ Head(ready).h = h

\* session::on_connect
on_connect ==
    /\ ~started
    /\ Apply(read_handshake([S EXCEPT !.started = TRUE]))

\* the io_service runs the queued handler
Run_handle_read_handshake ==
    /\ HeadIs("hs_read")
    /\ \E req \in Requests : Apply(handle_read_handshake(Popped, Head(ready).ec, req))

Run_handle_write_handshake ==
    /\ HeadIs("hs_write")
    /\ Apply(handle_write_handshake(Popped, Head(ready).ec))

\* The bytes the completed read left in the buffer are drawn here: nothing
\* looks at m_buf between the completion and its handler.
Run_handle_read_frame ==
    /\ HeadIs("read")
    /\ \E ch \in Arrived(Head(ready).ec) :
          /\ Len(m_buf) + Len(ch) <= MaxBuf
          /\ Outstanding(S, "write") + Len(m_buf) + Len(ch) <= MaxWrites
          /\ Apply(handle_read_frame([Popped EXCEPT !.m_buf = @ \o ch], Head(ready).ec))

Run_handle_write_frame ==
    /\ HeadIs("write")
    /\ Apply(handle_write_frame(Popped, Head(ready).ec))

Run_handle_handshake_expired ==
    /\ HeadIs("handshake")
    /\ Apply(handle_handshake_expired(Popped, Head(ready).ec))

Run_handle_close_expired ==
    /\ HeadIs("close")
    /\ Apply(handle_close_expired(Popped, Head(ready).ec))

\* a wait on m_timer reaches its deadline: its handler is queued with success
timer_expires ==
    /\ \E k \in TimerKinds :
          /\ m_timer[k] > 0
          /\ Apply(Post([S EXCEPT !.m_timer[k] = @ - 1], k, "ok"))

\* An operation in flight on the socket completes.  It succeeds only while
\* the connection is up.
Completes(k, ec) ==
    /\ pending[k] > 0
    /\ ec = "err" \/ m_socket = "open"
    /\ Apply(Post([S EXCEPT !.pending[k] = @ - 1], k, ec))

hs_read_completes ==
    /\ \E ec \in {"ok", "eof", "err"} : Completes("hs_read", ec)

hs_write_completes ==
    /\ \E ec \in {"ok", "err"} : Completes("hs_write", ec)

write_completes ==
    /\ \E ec \in {"ok", "err"} : Completes("write", ec)

read_completes ==
    /\ \E ec \in {"ok", "eof", "err"} : Completes("read", ec)

\* the peer resets the connection: the descriptor stays open, not connected
peer_reset ==
    /\ started
    /\ m_socket = "open"
    /\ Apply([S EXCEPT !.m_socket = "notconn"])

\* The calls of the application are taken while another frame write fits.
CanWrite == Outstanding(S, "write") < MaxWrites

\* session::send (text and binary)
send ==
    /\ CanWrite
    /\ \E op \in {"TEXT", "BINARY"} : Apply(send_frame(S, op))

\* session::ping
ping ==
    /\ CanWrite
    /\ Apply(send_frame(S, "PING"))

\* session::pong
pong ==
    /\ CanWrite
    /\ Apply(send_frame(S, "PONG"))

\* session::close
close ==
    /\ CanWrite
    /\ \E status \in CloseCodes : Apply(session_close(S, status, "bye"))

Next ==
    \/ on_connect
    \/ Run_handle_read_handshake
    \/ Run_handle_write_handshake
    \/ Run_handle_read_frame
    \/ Run_handle_write_frame
    \/ Run_handle_handshake_expired
    \/ Run_handle_close_expired
    \/ timer_expires
    \/ hs_read_completes
    \/ hs_write_completes
    \/ write_completes
    \/ read_completes
    \/ peer_reset
    \/ send
    \/ ping
    \/ pong
    \/ close

Spec == Init /\ [][Next]_vars

\* session::set_handler: installs the new connection handler and calls its
\* on_open, whatever the state of the session
set_handler ==
    /\ on_open < MaxSetHandler
    /\ Apply([S EXCEPT !.on_open = @ + 1])

\* The frames that follow another frame in one read, with payload.
NextPayloadTokens == {a \in PayloadTokens : a.op \in {"PING", "CLOSE"}}

\* What a read can have added to the buffer, the frames well formed and
\* carrying payload.
ArrivedPayload(ec) ==
    CASE ec = "ok" -> {<<a>> : a \in PayloadTokens \cup {PartToken}}
                          \cup {<<a, b>> : a \in PayloadTokens, b \in NextPayloadTokens}
      [] ec = "eof" -> {<< >>} \cup {<<a>> : a \in PayloadTokens}
      [] OTHER -> {<< >>}

\* Payload bytes of the data frames of a chunk
RECURSIVE ChunkBytes(_)
ChunkBytes(ch) ==
    IF ch = << >> THEN 0
    ELSE (IF Head(ch).op \in DataOps THEN Len(Head(ch).payload) ELSE 0) + ChunkBytes(Tail(ch))

\* the io_service runs the queued handler of a frame read; the peer's frames
\* carry payload
Run_handle_read_frame_payload ==
    /\ HeadIs("read")
    /\ \E ch \in ArrivedPayload(Head(ready).ec) :
          /\ Len(m_buf) + Len(ch) <= MaxBuf
          /\ Outstanding(S, "write") + Len(m_buf) + Len(ch) <= MaxWrites
          /\ Len(wire_message) + ChunkBytes(ch) <= MaxMsg
          /\ Apply(handle_read_frame([Popped EXCEPT !.m_buf = @ \o ch], Head(ready).ec))

\* The session receiving frames with payload; the application only closes
\* and no deadline is reached.
FrameNext ==
    \/ on_connect
    \/ Run_handle_read_handshake
    \/ Run_handle_write_handshake
    \/ Run_handle_read_frame_payload
    \/ Run_handle_write_frame
    \/ Run_handle_handshake_expired
    \/ Run_handle_close_expired
    \/ hs_read_completes
    \/ hs_write_completes
    \/ write_completes
    \/ read_completes
    \/ close

FrameSpec == Init /\ [][FrameNext]_vars

\* The session with the application also switching handlers.
HandlerNext == Next \/ set_handler

HandlerSpec == Init /\ [][HandlerNext]_vars

\* ----------------------------------------------------------------- claims
Rank(st) == CASE st = "CONNECTING" -> 0 [] st = "OPEN" -> 1 [] st = "CLOSING" -> 2 [] OTHER -> 3

\* nothing is in flight, queued or armed
Quiescent ==
    /\ ready = << >>
    /\ \A k \in OpKinds : pending[k] = 0
    /\ \A k \in TimerKinds : m_timer[k] = 0

OutstandingReads == Outstanding(S, "read")
OutstandingWrites == Outstanding(S, "write")

\* C1: once the session is CLOSED (and nothing is left to run), the
\* application has received on_close exactly once if it received on_open, and
\* never otherwise.
C1_OnCloseOnceIffOpened ==
    (m_state = "CLOSED" /\ Quiescent) => on_close = (IF on_open > 0 THEN 1 ELSE 0)

\* C2: no step moves the state to an earlier value of
\* CONNECTING < OPEN < CLOSING < CLOSED.
C2_StateMonotonic == [][Rank(m_state') >= Rank(m_state)]_vars

\* C2 witness: the session was CLOSED by the handshake deadline and the
\* completion of a successful response write is the next handler to run.
C2_Witness ==
    /\ m_state = "CLOSED"
    /\ m_server_http_code = 101
    /\ HeadIs("hs_write") /\ Head(ready).ec = "ok"

\* C3: no frame write is started while m_writing is set; at most one frame
\* write is outstanding.
C3_WritesSerialized == ~write_overlap /\ OutstandingWrites <= 1

\* C4: while OPEN or CLOSING exactly one read is outstanding, and no read is
\* started while another is outstanding.
C4_ReadsSerialized ==
    /\ m_state \in {"OPEN", "CLOSING"} => OutstandingReads = 1
    /\ OutstandingReads <= 1
    /\ ~read_overlap

\* C4 witness: CLOSING after a frame error, bytes left in the buffer, the next
\* read in flight.
C4_Witness == m_state = "CLOSING" /\ Len(m_buf) > 0 /\ pending["read"] = 1

\* C5: was_clean only if a Close frame was sent and one was received; it is
\* false after a close-ack timeout, a read error, an end of file without a
\* Close frame, a fatal frame error and a handshake failure.
C5_WasCleanOnlyAfterExchange ==
    /\ m_was_clean => (close_sent /\ close_received)
    /\ close_cause \in {"close_timeout", "read_error", "eof", "fatal", "hs_timeout",
                        "hs_rejected", "hs_write_error"} => ~m_was_clean

\* C5 witness: a clean close, the peer's Close frame acknowledging ours.
C5_Witness == m_was_clean /\ m_closed_by_me /\ close_cause = "peer_close"

\* C6: no frame write is started while the session is CLOSED.
C6_NoWriteOnceClosed == ~write_closed

\* C6 witness: CLOSED with the connection up and bytes left in the read buffer.
C6_Witness == m_state = "CLOSED" /\ m_socket = "open" /\ Len(m_buf) > 0

\* C7: a CLOSING session reaches CLOSED whatever the peer does.  In finite
\* form: a CLOSING session never waits for the peer alone, that is, while it
\* is CLOSING its close-ack wait is armed, or a handler is queued, or a write
\* is in flight, or the connection is down (its read then fails).
C7_ClosingNeverWaitsForPeerAlone ==
    m_state = "CLOSING" =>
        \/ m_timer["close"] > 0
        \/ ready # << >>
        \/ pending["write"] > 0
        \/ m_socket # "open"

\* The handshake deadline has expired: its handler is queued with success, or
\* has run and dropped the session.  The wait is armed only while the session
\* is CONNECTING (HandshakeWaitOnlyConnecting), so it expired on a CONNECTING
\* session.
HandshakeDeadlineExpired ==
    \/ \E i \in 1..Len(ready) : ready[i] = [h |-> "handshake", ec |-> "ok"]
    \/ close_cause \in {"hs_timeout", "hs_timeout_late"}

HandshakeWaitOnlyConnecting == m_timer["handshake"] > 0 => m_state = "CONNECTING"

\* C8: once the handshake deadline has expired on a CONNECTING session,
\* on_open is not delivered, whatever the order of the deadline's handler and
\* the handshake completions; once the handler has run, the session is CLOSED
\* with dropped_by_me set and its connection is down.
C8_HandshakeTimeout ==
    /\ HandshakeDeadlineExpired => on_open = 0
    /\ close_cause \in {"hs_timeout", "hs_timeout_late"} =>
          (m_state = "CLOSED" /\ m_dropped_by_me /\ m_socket # "open")

\* C9: a CLOSED session has no armed timer and its socket is closed.
C9_ClosedMeansDropped ==
    m_state = "CLOSED" => (\A k \in TimerKinds : m_timer[k] = 0) /\ m_socket # "open"

\* C10: at most one wait on m_timer is armed at any time.
C10_OneTimerArmed == m_timer["handshake"] + m_timer["close"] <= 1

\* C10 witness: the close-ack wait is armed while a handler of the handshake
\* wait is still queued.
C10_Witness ==
    /\ m_timer["close"] = 1
    /\ \E i \in 1..Len(ready) : ready[i].h = "handshake"

\* C11: once a Close frame was sent or received and the session is CLOSING or
\* CLOSED, closed_by_me is true if and only if the local side sent the first
\* Close frame.
C11_ClosedByMeIsFirstClose ==
    (m_state \in {"CLOSING", "CLOSED"} /\ first_close # "NONE") =>
        (m_closed_by_me <=> first_close = "local")

\* C12: once the session is CLOSED, dropped_by_me is true when the local side
\* shut the socket down first (handshake timeout, fatal frame error, close-ack
\* timeout, rejected handshake) and false when the peer dropped first (end of
\* file, read error); close_cause is the first way the session became CLOSED,
\* so a handler that runs later must not change the value.
C12_DroppedByMeIsWhoDropped ==
    m_state = "CLOSED" =>
        /\ close_cause \in {"hs_timeout", "fatal", "close_timeout", "hs_rejected"} => m_dropped_by_me
        /\ close_cause \in {"eof", "read_error"} => ~m_dropped_by_me

\* C13: close(code, reason) on an OPEN session moves it to CLOSING, hands
\* exactly one CLOSE frame to the transport and arms the close-ack wait;
\* in any other state it changes nothing.
C13_CloseOnlyWhenOpen ==
    \A status \in CloseCodes :
        LET r == session_close(S, status, "bye")
        IN IF m_state = "OPEN"
           THEN /\ r.m_state = "CLOSING"
                /\ Outstanding(r, "write") = OutstandingWrites + 1
                /\ r.m_write_frame.op = "CLOSE"
                /\ r.m_timer = [k \in TimerKinds |-> IF k = "close" THEN 1 ELSE 0]
                /\ r.m_local_close_code = status /\ r.m_local_close_msg = "bye"
           ELSE r = S

\* C13 witness: close() has acted on an OPEN session, and may be called again.
C13_Witness ==
    /\ m_state = "CLOSING" /\ first_close = "local" /\ m_local_close_code = 999
    /\ m_timer["close"] = 1 /\ CanWrite

\* The status codes C14 is checked for: the catalogue, the sentinels, the ends
\* of the reserved and of the application ranges, and codes outside 16 bits.
TestCodes == {0, 999} \cup 1000..1011 \cup {1015, 2999, 3999, 4000, 4999, 5000, 65535, 65536, 70000}

\* The frame C14 expects on the wire for a requested status and reason.
WireClose(status, reason) ==
    CASE status = NO_STATUS -> [op |-> "CLOSE", status |-> NORMAL, msg |-> "", payload |-> << >>]
      [] status = ABNORMAL_CLOSE -> [op |-> "CLOSE", status |-> POLICY_VIOLATION, msg |-> reason, payload |-> << >>]
      [] status \notin {NO_STATUS, ABNORMAL_CLOSE} /\ invalid(status) ->
            [op |-> "CLOSE", status |-> PROTOCOL_ERROR, msg |-> "Status code is invalid", payload |-> << >>]
      [] ~invalid(status) /\ reserved(status) ->
            [op |-> "CLOSE", status |-> PROTOCOL_ERROR, msg |-> "Status code is reserved", payload |-> << >>]
      [] OTHER -> [op |-> "CLOSE", status |-> status, msg |-> reason, payload |-> << >>]

\* C14: the Close frame send_close hands to the transport carries the status
\* and reason that WireClose gives for the requested ones, and no Close frame
\* in the outbound buffer carries 1005 or 1006.
C14_WireStatusOfClose ==
    /\ m_state = "OPEN" =>
          \A status \in TestCodes, reason \in {"", "bye"} :
              send_close(S, status, reason).m_write_frame = WireClose(status, reason)
    /\ m_write_frame.op = "CLOSE" => m_write_frame.status \notin {NO_STATUS, ABNORMAL_CLOSE}

\* C14 witness: a reserved code was requested and PROTOCOL_ERROR was sent.
C14_Witness ==
    /\ m_local_close_code = 999
    /\ m_write_frame = [op |-> "CLOSE", status |-> PROTOCOL_ERROR, msg |-> "Status code is reserved", payload |-> << >>]

\* C15: send, ping and pong called while the session is not OPEN start no
\* write and leave the outbound frame buffer, the state, the timer and the
\* close record as they are.
C15_SendDroppedUnlessOpen ==
    m_state # "OPEN" => \A op \in {"TEXT", "BINARY", "PING", "PONG"} : send_frame(S, op) = S

\* C15 witness: send, ping and pong can be called on a CLOSING session whose
\* outbound buffer holds the Close frame in flight.
C15_Witness ==
    /\ m_state = "CLOSING" /\ CanWrite
    /\ m_write_frame.op = "CLOSE" /\ pending["write"] = 1 /\ m_timer["close"] = 1

\* The read loop has, in this step, acted on a frame error of kind e.
LoopActsOn(e) == loop_error' # loop_error /\ loop_error' = e

\* The local close code and the status on the wire for the frame errors that
\* are answered with a Close frame.
LocalCodeOf(e) ==
    CASE e = "PROTOCOL_VIOLATION" -> PROTOCOL_ERROR
      [] e = "PAYLOAD_VIOLATION" -> INVALID_PAYLOAD
      [] OTHER -> ABNORMAL_CLOSE

WireCodeOf(e) ==
    CASE e = "PROTOCOL_VIOLATION" -> PROTOCOL_ERROR
      [] e = "PAYLOAD_VIOLATION" -> INVALID_PAYLOAD
      [] OTHER -> POLICY_VIOLATION

\* C16: a PROTOCOL_VIOLATION, PAYLOAD_VIOLATION or INTERNAL_SERVER_ERROR
\* raised while OPEN is answered in the same step with one Close frame of
\* status 1002, 1007 or 1008 (local code ABNORMAL_CLOSE); the session is then
\* CLOSING with the close-ack wait armed, unless the same read ended with the
\* end of file, which closes it; no on_message is delivered for the frame.
C16_FrameErrorSendsClose ==
    [][ \A e \in {"PROTOCOL_VIOLATION", "PAYLOAD_VIOLATION", "INTERNAL_SERVER_ERROR"} :
          (m_state = "OPEN" /\ LoopActsOn(e)) =>
              /\ m_write_frame'.op = "CLOSE" /\ m_write_frame'.status = WireCodeOf(e)
              /\ m_local_close_code' = LocalCodeOf(e)
              /\ Outstanding([pending |-> pending', ready |-> ready'], "write") = OutstandingWrites + 1
              /\ \/ m_state' = "CLOSING" /\ m_timer'["close"] = 1
                 \/ m_state' = "CLOSED" /\ close_cause' = "eof"
              /\ ~msg_on_error' ]_vars

\* C16 witness: an INTERNAL_SERVER_ERROR was answered with status 1008.
C16_Witness ==
    /\ loop_error = "INTERNAL_SERVER_ERROR" /\ m_state = "CLOSING"
    /\ m_local_close_code = ABNORMAL_CLOSE
    /\ m_write_frame.status = POLICY_VIOLATION /\ m_timer["close"] = 1

\* C17: a MESSAGE_TOO_BIG error raised while OPEN is answered with a Close
\* frame of status 1009 and the session moves to CLOSING.
C17_TooBigSendsClose ==
    [][ (m_state = "OPEN" /\ LoopActsOn("MESSAGE_TOO_BIG")) =>
            /\ m_write_frame'.op = "CLOSE" /\ m_write_frame'.status = MESSAGE_TOO_BIG
            /\ m_state' = "CLOSING" \/ close_cause' = "eof" ]_vars

\* C18: a FATAL_SESSION_ERROR drops the connection in the same step: the
\* session is CLOSED with dropped_by_me set and was_clean clear, no frame is
\* written (neither a Close frame nor an answer to a frame left in the
\* buffer) and no read is outstanding.
C18_FatalDropsAtOnce ==
    [][ LoopActsOn("FATAL_SESSION_ERROR") =>
            /\ m_state' = "CLOSED" /\ m_dropped_by_me' /\ ~m_was_clean'
            /\ m_socket' # "open"
            /\ close_sent' = close_sent /\ m_write_frame' = m_write_frame
            /\ Outstanding([pending |-> pending', ready |-> ready'], "write") = OutstandingWrites
            /\ Outstanding([pending |-> pending', ready |-> ready'], "read") = 0 ]_vars

\* C18 witness: the connection was dropped on a fatal error with a frame left
\* in the read buffer.
C18_Witness ==
    /\ loop_error = "FATAL_SESSION_ERROR" /\ close_cause = "fatal"
    /\ Len(m_buf) > 0 /\ m_socket = "closed"

\* What running the handler at the head of the queue can leave.
AfterHead ==
    LET h == Head(ready).h
        ec == Head(ready).ec
    IN CASE h = "hs_read" -> {handle_read_handshake(Popped, ec, req) : req \in Requests}
         [] h = "hs_write" -> {handle_write_handshake(Popped, ec)}
         [] h = "read" -> {handle_read_frame(Popped, ec)}
         [] h = "write" -> {handle_write_frame(Popped, ec)}
         [] h = "handshake" -> {handle_handshake_expired(Popped, ec)}
         [] OTHER -> {handle_close_expired(Popped, ec)}

\* C19: a completion handler run with operation_aborted on a CLOSED session
\* changes neither the state nor was_clean, closed_by_me and dropped_by_me,
\* starts no read or write and delivers no callback.
C19_AbortedHandlerIsNoOp ==
    (ready # << >> /\ Head(ready).ec = "aborted" /\ m_state = "CLOSED") =>
        \A r \in AfterHead :
            /\ r.m_state = m_state /\ r.m_was_clean = m_was_clean
            /\ r.m_closed_by_me = m_closed_by_me /\ r.m_dropped_by_me = m_dropped_by_me
            /\ \A k \in OpKinds : Outstanding(r, k) = Outstanding(Popped, k)
            /\ r.on_open = on_open /\ r.on_close = on_close /\ r.delivered = 0

\* The handshake has failed: the request was rejected or the response write
\* reported an error.
HandshakeFailed == close_cause \in {"hs_rejected", "hs_write_error"}

\* C20: on_open is delivered only by the handler of a successful write of a
\* 101 response, and the session is OPEN after it; a session whose handshake
\* failed went from CONNECTING to CLOSED in the handler of the response
\* write and delivers neither on_open nor on_message.  It holds of Spec and
\* fails of HandlerSpec.
C20_OnOpenOnlyAfter101 ==
    /\ [](on_open > 0 => m_server_http_code = 101 /\ m_state # "CONNECTING")
    /\ [](HandshakeFailed => m_state = "CLOSED" /\ on_open = 0)
    /\ [](~msg_before_open)
    /\ [][ /\ on_open' # on_open =>
                /\ HeadIs("hs_write") /\ Head(ready).ec = "ok"
                /\ m_server_http_code = 101
                /\ m_state = "CONNECTING" /\ m_state' = "OPEN"
           /\ (HandshakeFailed' /\ ~HandshakeFailed) =>
                /\ HeadIs("hs_write")
                /\ m_state = "CONNECTING" /\ m_state' = "CLOSED" ]_vars

\* ---------------------------------------------------------------- C21
\* The checks of the opening handshake, as the specification lists them.
RequestLineOk(line) == Len(line) > 0 /\ line[1] = "GET " /\ line[Len(line)] = " HTTP/1.1"

VersionOk(v) == v \in { <<"7">>, <<"8">>, <<"1", "3">> }

Checks1to6(req) ==
    /\ RequestLineOk(req.line)
    /\ req.host = "ok"
    /\ req.upgrade = "websocket"
    /\ req.connection = "upgrade"
    /\ req.key
    /\ VersionOk(req.version)

ExpectedStatus(req) ==
    IF ~Checks1to6(req) THEN 400
    ELSE IF req.validate # 0 THEN req.validate
    ELSE 101

\* C21: whatever request the handler of the handshake read finds, the status
\* it leaves is 101 exactly when checks 1 to 6 pass and validate accepts, 400
\* when one of checks 1 to 6 fails (whatever validate would say), and the
\* status validate rejects with otherwise.
C21_HandshakeStatus ==
    HeadIs("hs_read") =>
        \A req \in Requests :
            handle_read_handshake(Popped, Head(ready).ec, req).m_server_http_code
                = ExpectedStatus(req)

\* ---------------------------------------------------------------- C22
\* The session once its read loop has taken the frame tok from the buffer
\* and processed it.
Received(tok) == try_frame([S EXCEPT !.m_buf = <<tok>>])

\* The session is OPEN and its read loop is at a frame boundary.
AwaitsFrame == m_state = "OPEN" /\ m_buf = << >> /\ m_read_frame.st = "HEADER"

\* C22: while OPEN, m_fragmented is set exactly while a message the peer
\* started is not yet delivered; an accepted data frame leaves it set exactly
\* when its fin bit is clear, a rejected one leaves it as it was, and a
\* PING, PONG or CLOSE frame changes neither m_fragmented nor
\* m_current_opcode, m_current_message or m_utf8_state.
C22_FragmentedTracksMessage ==
    /\ m_state = "OPEN" => (m_fragmented <=> wire_opcode # "NONE")
    /\ AwaitsFrame =>
         \A tok \in PayloadTokens :
            LET r == Received(tok)
            IN CASE tok.op \in ControlOps ->
                      /\ r.m_fragmented = m_fragmented
                      /\ r.m_current_opcode = m_current_opcode
                      /\ r.m_current_message = m_current_message
                      /\ r.m_utf8_state = m_utf8_state
                 [] r.exc # "NONE" -> r.m_fragmented = m_fragmented
                 [] OTHER -> r.m_fragmented = ~tok.fin

\* C22 witness: a TEXT message is in progress, half a character received,
\* and the session has answered a PING.
C22_Witness ==
    /\ AwaitsFrame /\ m_fragmented /\ m_current_opcode = "TEXT"
    /\ m_current_message = <<"L">> /\ m_utf8_state = "NEED1"
    /\ m_write_frame.op = "PONG" /\ m_write_frame.payload = <<"a">>

\* ---------------------------------------------------------------- C23
\* The message the frame tok completes, by what the peer has sent: its
\* opcode is that of the frame that started it, its payload the payloads in
\* the order sent.
StartsMessage(tok) == tok.op \in {"TEXT", "BINARY"} /\ wire_opcode = "NONE"
ContinuesMessage(tok) == tok.op = "CONTINUATION" /\ wire_opcode # "NONE"
MessageOpcode(tok) == IF tok.op = "CONTINUATION" THEN wire_opcode ELSE tok.op
MessagePayload(tok) == IF tok.op = "CONTINUATION" THEN wire_message \o tok.payload ELSE tok.payload

\* tok completes a message the application is to receive.
CompletesMessage(tok) ==
    /\ tok.fin
    /\ StartsMessage(tok) \/ ContinuesMessage(tok)
    /\ MessageOpcode(tok) = "TEXT" => utf8_run("ACCEPT", MessagePayload(tok)) = "ACCEPT"

\* C23: on_message is only ever handed the message the peer has completed,
\* with the opcode of its first frame and the payloads of its frames in the
\* order sent; a frame that completes a message causes exactly one
\* on_message, every other frame none.
C23_MessageDeliveredOnce ==
    /\ ~msg_wrong
    /\ AwaitsFrame =>
         \A tok \in PayloadTokens :
            LET r == Received(tok)
            IN /\ r.delivered = IF CompletesMessage(tok) THEN 1 ELSE 0
               /\ ~r.msg_wrong
               /\ r.delivered = 1 => r.wire_opcode = "NONE" /\ r.m_current_message = << >>

\* C23 witness: a TEXT message has come in two frames with a PING answered
\* meanwhile, and its last frame, an empty continuation, hands it over.
C23_Witness ==
    /\ AwaitsFrame /\ m_fragmented /\ m_current_opcode = "TEXT"
    /\ m_current_message = <<"L", "C">> /\ wire_message = <<"L", "C">>
    /\ m_write_frame.op = "PONG"
    /\ Received([t |-> "frame", op |-> "CONTINUATION", fin |-> TRUE, code |-> "NONE",
                 status |-> 0, payload |-> << >>]).delivered = 1

\* ---------------------------------------------------------------- C24
\* A data frame that is out of place: a new message inside a fragmented one,
\* or a continuation of nothing.
OutOfPlace(tok) ==
    \/ tok.op \in {"TEXT", "BINARY"} /\ m_fragmented
    \/ tok.op = "CONTINUATION" /\ ~m_fragmented

\* C24: whatever its payload, a data frame that is out of place makes the
\* read loop send a Close frame with status 1002 and leave the session
\* CLOSING, and no message is delivered.
C24_OutOfPlaceIsProtocolError ==
    AwaitsFrame =>
        \A tok \in PayloadTokens :
            OutOfPlace(tok) =>
                LET r == frame_loop([S EXCEPT !.m_buf = <<tok>>])
                IN /\ r.m_state = "CLOSING"
                   /\ r.m_write_frame.op = "CLOSE"
                   /\ r.m_write_frame.status = PROTOCOL_ERROR
                   /\ r.delivered = 0

\* ---------------------------------------------------------------- C25
\* tok is, in its place, a frame of a message with opcode op.
FrameOfMessage(tok, op) ==
    (StartsMessage(tok) \/ ContinuesMessage(tok)) /\ MessageOpcode(tok) = op

\* The validator fed every byte the peer has sent of the message tok
\* belongs to, tok's included, in the order sent.
Validated(tok) == utf8_run("ACCEPT", MessagePayload(tok))

\* The read loop has answered with a Close frame of status 1007.
ClosedInvalidPayload(r) ==
    /\ r.m_state = "CLOSING"
    /\ r.m_write_frame.op = "CLOSE"
    /\ r.m_write_frame.status = INVALID_PAYLOAD
    /\ r.m_local_close_code = INVALID_PAYLOAD

\* C25: while OPEN the validator is in ACCEPT whenever no TEXT message is in
\* progress and otherwise where the bytes of the message so far leave it.  A
\* frame of a TEXT message is delivered exactly when it completes the message
\* and the validator, fed the whole message, ends in ACCEPT; when the
\* validator rejects, or the message ends elsewhere than in ACCEPT, nothing
\* is delivered and the session closes with 1007.  The frames of a BINARY
\* message leave the validator alone.
C25_TextIsValidated ==
    /\ m_state = "OPEN" =>
         m_utf8_state = IF m_fragmented /\ m_current_opcode = "TEXT"
                        THEN utf8_run("ACCEPT", wire_message) ELSE "ACCEPT"
    /\ AwaitsFrame =>
         \A tok \in PayloadTokens :
            LET r == frame_loop([S EXCEPT !.m_buf = <<tok>>])
            IN /\ FrameOfMessage(tok, "TEXT") =>
                    IF Validated(tok) = "REJECT" \/ (tok.fin /\ Validated(tok) # "ACCEPT")
                    THEN r.delivered = 0 /\ ClosedInvalidPayload(r)
                    ELSE /\ r.delivered = IF tok.fin THEN 1 ELSE 0
                         /\ r.m_state = "OPEN"
                         /\ r.m_utf8_state = IF tok.fin THEN "ACCEPT" ELSE Validated(tok)
               /\ FrameOfMessage(tok, "BINARY") =>
                    r.m_utf8_state = m_utf8_state /\ r.m_state = "OPEN"

\* C25 witness: a TEXT message ended in the middle of a character; the
\* session has sent Close 1007 and is CLOSING.
C25_Witness ==
    /\ m_state = "CLOSING" /\ m_fragmented /\ m_current_opcode = "TEXT"
    /\ m_current_message = <<"a", "L">> /\ m_utf8_state = "NEED1"
    /\ m_write_frame.op = "CLOSE" /\ m_write_frame.status = INVALID_PAYLOAD
    /\ loop_error = "PAYLOAD_VIOLATION"

\* ---------------------------------------------------------------- C26
\* Processing a PING hands exactly one PONG with the PING's payload to
\* async_write and leaves the message in progress as it was.
PingAnswered ==
    AwaitsFrame =>
        \A tok \in PayloadTokens :
            tok.op = "PING" =>
                LET r == Received(tok)
                IN /\ r.m_write_frame.op = "PONG"
                   /\ r.m_write_frame.payload = tok.payload
                   /\ Outstanding(r, "write") = OutstandingWrites + 1
                   /\ r.m_fragmented = m_fragmented
                   /\ r.m_current_message = m_current_message

\* C26: every PING received while OPEN is answered by one PONG with the same
\* payload, and the PONG is emitted as it was handed over: the frame buffer
\* async_write sends from is not changed while the write is in flight.
C26_PingGetsPong ==
    /\ []PingAnswered
    /\ [][(pending["write"] > 0 /\ m_write_frame.op = "PONG")
              => m_write_frame' = m_write_frame]_vars

\* ---------------------------------------------------------------- C27
\* The handler of a successful frame read is next and the session is OPEN
\* at a frame boundary.
ReadHandlerNext == HeadIs("read") /\ Head(ready).ec = "ok" /\ AwaitsFrame

\* C27: when the read handler of an OPEN session finds a CLOSE frame, it
\* records the peer's code and reason, hands exactly one CLOSE frame (the
\* acknowledgement) to async_write while the session is not yet CLOSED, and
\* leaves the session CLOSED with m_was_clean set and m_closed_by_me clear;
\* a frame that follows in the buffer stays there, unprocessed.
C27_PeerCloseIsAcknowledged ==
    ReadHandlerNext =>
        \A tok \in PayloadTokens, nxt \in PayloadTokens \cup BadTokens :
            tok.op = "CLOSE" =>
                LET r == handle_read_frame([Popped EXCEPT !.m_buf = <<tok, nxt>>], "ok")
                IN /\ r.m_remote_close_code = tok.status
                   /\ r.m_remote_close_msg = IF tok.status = NO_STATUS THEN "" ELSE "peer"
                   /\ r.m_write_frame.op = "CLOSE"
                   /\ r.m_write_frame.status = IF tok.status = NO_STATUS THEN NORMAL ELSE tok.status
                   /\ Outstanding(r, "write") = Outstanding(Popped, "write") + 1
                   /\ r.close_sent /\ ~r.close_twice /\ ~r.write_closed
                   /\ r.m_state = "CLOSED" /\ r.m_was_clean /\ ~r.m_closed_by_me
                   /\ r.m_buf = <<nxt>>
                   /\ r.delivered = 0
                   /\ r.m_fragmented = m_fragmented

\* C27 witness: the peer's CLOSE was acknowledged and the session is CLOSED;
\* the frame that came with it is still in the buffer.
C27_Witness ==
    /\ m_state = "CLOSED" /\ m_was_clean /\ ~m_closed_by_me
    /\ close_received /\ first_close = "peer" /\ close_cause = "peer_close"
    /\ m_remote_close_code = NO_STATUS
    /\ m_write_frame.op = "CLOSE" /\ m_write_frame.status = NORMAL
    /\ Len(m_buf) = 1

\* ---------------------------------------------------------------- C28
\* The session is CLOSING at a frame boundary.
AwaitsFrameClosing == m_state = "CLOSING" /\ m_buf = << >> /\ m_read_frame.st = "HEADER"

\* A frame other than CLOSE that arrives while CLOSING changes nothing: no
\* on_message, no write, the assembler and the state as they were.
ClosingIgnoresFrames ==
    AwaitsFrameClosing =>
        \A tok \in PayloadTokens :
            tok.op # "CLOSE" =>
                LET r == Received(tok)
                IN /\ r.exc = "NONE"
                   /\ r.delivered = 0
                   /\ r.m_write_frame = m_write_frame
                   /\ Outstanding(r, "write") = Outstanding(S, "write")
                   /\ r.m_fragmented = m_fragmented
                   /\ r.m_current_opcode = m_current_opcode
                   /\ r.m_current_message = m_current_message
                   /\ r.m_utf8_state = m_utf8_state
                   /\ r.m_state = "CLOSING"
                   /\ r.m_read_frame.st = "HEADER"

\* The step takes the session out of CLOSING
LeavesClosing == m_state = "CLOSING" /\ m_state' # "CLOSING"

\* ... in the read handler, which found the peer's CLOSE frame
ByCloseFrame == HeadIs("read") /\ ~close_received /\ close_received' /\ close_cause' = "peer_close"

\* ... in the callback of a timer
ByTimer == HeadIs("handshake") \/ HeadIs("close")

\* ... in the handler of a read or write that failed or met the end of file
ByTransportError == (HeadIs("read") \/ HeadIs("write")) /\ Head(ready).ec # "ok"

\* ... in the handler of a successful read, on a frame error that the catch
\* block answers with drop_tcp
ByFatalFrameError ==
    /\ HeadIs("read") /\ Head(ready).ec = "ok"
    /\ close_cause' = "fatal"
    /\ loop_error' \in {"FATAL_SESSION_ERROR", "MESSAGE_TOO_BIG"}
    /\ m_socket' # "open" /\ m_dropped_by_me'

\* C28 as stated: while CLOSING every frame other than CLOSE is ignored, and
\* only a CLOSE frame, a timer expiry or a transport error takes the session
\* out of CLOSING.
C28_ClosingOnlyEndsByClose ==
    /\ []ClosingIgnoresFrames
    /\ [][LeavesClosing => (ByCloseFrame \/ ByTimer \/ ByTransportError)]_vars

\* C28 amended: while CLOSING every frame other than CLOSE is ignored, and
\* only a CLOSE frame, a timer expiry, a transport error or a fatal frame
\* error takes the session out of CLOSING.
C28_ClosingEnds ==
    /\ []ClosingIgnoresFrames
    /\ [][LeavesClosing =>
            (ByCloseFrame \/ ByTimer \/ ByTransportError \/ ByFatalFrameError)]_vars

\* C28 witness: a session that had sent its CLOSE frame and had a message
\* of the peer half assembled was dropped on a fatal frame error.
C28_Witness ==
    /\ m_state = "CLOSED" /\ close_sent /\ ~close_received
    /\ close_cause = "fatal" /\ loop_error = "FATAL_SESSION_ERROR"
    /\ m_fragmented /\ m_current_opcode = "TEXT"
    /\ ~m_was_clean

\* ---------------------------------------------------------------- C29
\* C29: once the session has reached OPEN (on_open was called), the callback
\* of the handshake timer, whatever it reports, leaves the session state and
\* the TCP connection as they are.
C29_HandshakeTimerSparesOpen ==
    (HeadIs("handshake") /\ on_open > 0) =>
        LET r == handle_handshake_expired(Popped, Head(ready).ec)
        IN /\ r.m_state = m_state
           /\ r.m_socket = m_socket
           /\ r.m_dropped_by_me = m_dropped_by_me

\* ---------------------------------------------------------------- C30
\* What a call or a received frame adds to the writes of CLOSE frames: the
\* step starts no write and leaves the outbound frame alone.
NoFrameWritten(r) ==
    /\ Outstanding(r, "write") = Outstanding(S, "write")
    /\ r.m_write_frame = m_write_frame
    /\ ~r.close_twice

\* C30: no second CLOSE frame is ever handed to async_write.  Once the
\* session has written its CLOSE frame, neither close() with any code, nor
\* any frame the peer sends (its CLOSE frame and the frames the decoder
\* rejects included) starts another write.
C30_AtMostOneClose ==
    /\ ~close_twice
    /\ close_sent =>
          /\ m_state \in {"CLOSING", "CLOSED"}
          /\ \A status \in CloseCodes : NoFrameWritten(session_close(S, status, "bye"))
          /\ (m_buf = << >> /\ m_read_frame.st = "HEADER") =>
                \A tok \in PayloadTokens \cup BadTokens :
                    NoFrameWritten(frame_loop([S EXCEPT !.m_buf = <<tok>>]))

\* C30 witness: the session wrote its CLOSE frame first, and the peer's
\* CLOSE frame came afterwards.
C30_Witness ==
    /\ m_state = "CLOSED" /\ close_sent /\ close_received
    /\ first_close = "local" /\ m_closed_by_me /\ m_was_clean
    /\ m_write_frame.op = "CLOSE"
    /\ ~close_twice
====
